---- MODULE Spec2Model ----
(***************************************************************************)
(* Model of models/official/detection/main.py: the train / eval /         *)
(* train_and_eval driver of the detection models.  A state is the driver's *)
(* position in main(), the merged parameters, the calls it has made on the *)
(* executor, the checkpoints the iterator has yielded and the file system  *)
(* under model_dir.                                                        *)
(*                                                                         *)
(* Python strings are sequences of one-character strings; Python's None   *)
(* is the one-element sequence None below, which is no string.             *)
(***************************************************************************)
EXTENDS Integers, Sequences, FiniteSets, TLC

VARIABLES FLAGS, params, built, pc, err, log, yielded, ckpt, cycle, num_cycles, fs

vars == <<FLAGS, params, built, pc, err, log, yielded, ckpt, cycle, num_cycles, fs>>

\* ------------------------------------------------------------------ bounds
\* The checkpoint iterator yields at most MaxCkpts checkpoints in a run.
MaxCkpts == 2
\* Checkpoints are written at steps StepUnit, 2*StepUnit, ..., MaxStep*StepUnit.
MaxStep == 3
StepUnit == 10

\* ----------------------------------------------------------------- strings
None == <<"None">>
Truthy(x) == x # None /\ x # <<>>

DigitChars == <<"0", "1", "2", "3", "4", "5", "6", "7", "8", "9">>
DigitSet == {DigitChars[i] : i \in 1..10}
DigitVal(c) == CHOOSE d \in 0..9 : DigitChars[d + 1] = c

\* str(n) for n >= 0, as the checkpoint writer formats the global step.
RECURSIVE Digits(_)
Digits(n) == IF n < 10 THEN <<DigitChars[n + 1]>>
             ELSE Digits(n \div 10) \o <<DigitChars[(n % 10) + 1]>>

\* int(s) is defined on a non-empty string of digits; anything else is a
\* ValueError.
IsInt(s) == Len(s) > 0 /\ \A i \in 1..Len(s) : s[i] \in DigitSet

RECURSIVE IntOf(_)
IntOf(s) == IF Len(s) = 0 THEN 0
            ELSE 10 * IntOf(SubSeq(s, 1, Len(s) - 1)) + DigitVal(s[Len(s)])

\* s.split(sep): the parts of s between the occurrences of sep.
RECURSIVE Split(_, _)
Split(s, sep) ==
  IF \A i \in 1..Len(s) : s[i] # sep THEN <<s>>
  ELSE LET k == CHOOSE i \in 1..Len(s) :
                   s[i] = sep /\ \A j \in 1..(i - 1) : s[j] # sep
       IN <<SubSeq(s, 1, k - 1)>> \o Split(SubSeq(s, k + 1, Len(s)), sep)

\* Mutant: the directory part is not stripped.
basenameWholePath(p) == p

\* os.path.basename(p): what follows the last "/".
basename(p) ==
  IF \A i \in 1..Len(p) : p[i] # "/" THEN p
  ELSE LET k == CHOOSE i \in 1..Len(p) :
                   p[i] = "/" /\ \A j \in (i + 1)..Len(p) : p[j] # "/"
       IN SubSeq(p, k + 1, Len(p))

\* os.path.join(d, name)
join(d, name) == IF d = <<>> THEN name
                 ELSE IF d[Len(d)] = "/" THEN d \o name
                 ELSE d \o <<"/">> \o name

\* int(a / b) under "from __future__ import division": the true quotient,
\* truncated toward zero (b # 0).
Abs(x) == IF x < 0 THEN -x ELSE x
IntTrueDiv(a, b) == IF (a < 0) = (b < 0) THEN Abs(a) \div Abs(b)
                    ELSE -(Abs(a) \div Abs(b))

\* -------------------------------------------------------------- parameters
\* retinanet_config.RETINANET_CFG, flattened to dotted keys, reduced to the
\* parameters main() reads or sets.
RETINANET_CFG ==
  ("train.total_steps" :> 10) @@
  ("train.num_shards" :> 8) @@
  ("eval.num_steps_per_eval" :> 10) @@
  ("eval.eval_samples" :> 5) @@
  ("predict.predict_batch_size" :> 2) @@
  ("model_dir" :> <<>>) @@
  ("use_tpu" :> TRUE) @@
  ("platform.eval_master" :> <<>>) @@
  ("platform.tpu" :> None) @@
  ("platform.tpu_zone" :> None) @@
  ("platform.gcp_project" :> None)

ParamKeys == DOMAIN RETINANET_CFG

\* The YAML documents the two override flags may name.
ConfigA == <<"a", ".", "y">>
ConfigB == <<"b", ".", "y">>
OverrideS == <<"s">>
OverrideT == <<"t">>

EmptyDict == [k \in {} |-> 0]

Yaml(name) ==
  IF name = ConfigA THEN
    ("train.total_steps" :> 30) @@ ("eval.num_steps_per_eval" :> 20)
  ELSE IF name = ConfigB THEN
    ("predict.predict_batch_size" :> 1) @@ ("model_dir" :> <<"x">>)
  ELSE IF name = OverrideS THEN
    ("train.total_steps" :> 20) @@ ("train.num_shards" :> 2)
  ELSE IF name = OverrideT THEN
    ("eval.eval_samples" :> 7) @@ ("eval.num_steps_per_eval" :> 10)
  ELSE EmptyDict

\* ParamsDict.override: the keys the dict gives replace the values held.
Override(p, d) == [k \in DOMAIN p |-> IF k \in DOMAIN d THEN d[k] ELSE p[k]]

\* params_dict.override_params_dict: nothing to do when no document is named.
override_params_dict(p, name) ==
  IF Truthy(name) THEN Override(p, Yaml(name)) ELSE p

\* The dict main() builds from the command-line flags (lines 110-122).
FlagDict(F) ==
  ("platform.eval_master" :> F.eval_master) @@
  ("platform.tpu" :> F.tpu) @@
  ("platform.tpu_zone" :> F.tpu_zone) @@
  ("platform.gcp_project" :> F.gcp_project) @@
  ("use_tpu" :> F.use_tpu) @@
  ("model_dir" :> F.model_dir) @@
  ("train.num_shards" :> F.num_cores)

\* The parameters that dict sets.
FlagKeys == {"platform.eval_master", "platform.tpu", "platform.tpu_zone",
             "platform.gcp_project", "use_tpu", "model_dir", "train.num_shards"}

\* Mutant: --params_override is applied before --config_file.
MergedParamsConfigLast(F) ==
  LET p0 == RETINANET_CFG
      p1 == override_params_dict(p0, F.params_override)
      p2 == IF Truthy(F.config_file) THEN override_params_dict(p1, F.config_file)
            ELSE p1
  IN Override(p2, FlagDict(F))

\* Lines 101-122: defaults, then --config_file, then --params_override, then
\* the flag values.
MergedParams(F) ==
  LET p0 == RETINANET_CFG
      p1 == IF Truthy(F.config_file) THEN override_params_dict(p0, F.config_file)
            ELSE p0
      p2 == override_params_dict(p1, F.params_override)
  IN Override(p2, FlagDict(F))

\* ------------------------------------------------------------- file system
\* '/param.yaml'
ParamYaml == <<"/", "p", "a", "r", "a", "m", ".", "y", "a", "m", "l">>

\* Mutant: the snapshot is written without creating model_dir.
save_configNoMakeDirs(p, model_dir, f) ==
  IF Truthy(model_dir) THEN
    LET path == model_dir \o ParamYaml
    IN [f EXCEPT !.files = {w \in @ : w[1] # path} \cup {<<path, p>>},
                 !.ops = Append(@, <<"write", path>>)]
  ELSE f

\* save_config (lines 91-95): fs is the directories that exist, the files
\* written and the operations performed, in order.
save_config(p, model_dir, f) ==
  IF Truthy(model_dir) THEN
    LET made == IF model_dir \notin f.dirs
                THEN [f EXCEPT !.dirs = @ \cup {model_dir},
                               !.ops = Append(@, <<"MakeDirs", model_dir>>)]
                ELSE f
        path == model_dir \o ParamYaml
    IN [made EXCEPT !.files = {w \in @ : w[1] # path} \cup {<<path, p>>},
                    !.ops = Append(@, <<"write", path>>)]
  ELSE f

\* ---------------------------------------------------------------- executor
Outcomes == {"ok", "NotFoundError", "OtherError"}

TrainCall(max_steps, res) ==
  [op |-> "train", eval_steps |-> 0, step |-> max_steps, raised |-> res]
EvaluateCall(eval_steps, current_step, res) ==
  [op |-> "evaluate", eval_steps |-> eval_steps, step |-> current_step, raised |-> res]

\* params.eval.eval_samples // params.predict.predict_batch_size
EvalSteps(p) == p["eval.eval_samples"] \div p["predict.predict_batch_size"]

\* ----------------------------------------------------------- checkpoints
\* The name the checkpoint writer gives the checkpoint of a step, and the
\* path the iterator yields for it.
CkptPath(model_dir, step) == join(model_dir, <<"c", "k", "-">> \o Digits(step))

\* Line 161: int(os.path.basename(ckpt).split('-')[1])
StepField(path) == Split(basename(path), "-")[2]
current_step_of(path) == IntOf(StepField(path))

\* Mutant: the timeout callback asks the iterator to go on waiting.
terminate_evalKeepWaiting == FALSE

\* terminate_eval (lines 150-153)
terminate_eval == TRUE

\* -------------------------------------------------------------------- Init
ModelDirs == {None, <<>>, <<"d", "-", "1">>}

Init ==
  /\ FLAGS \in [mode : {"train", "eval", "train_and_eval", "predict"},
                eval_after_training : BOOLEAN,
                model_dir : ModelDirs,
                config_file : {None, ConfigA, ConfigB},
                params_override : {None, OverrideS, OverrideT},
                num_cores : {8},
                use_tpu : {TRUE},
                eval_master : {<<>>},
                tpu : {None},
                tpu_zone : {None},
                gcp_project : {None}]
  /\ params = RETINANET_CFG
  /\ built = EmptyDict
  /\ pc = "start"
  /\ err = "none"
  /\ log = <<>>
  /\ yielded = <<>>
  /\ ckpt = None
  /\ cycle = 0
  /\ num_cycles = 0
  /\ fs \in [dirs : SUBSET {<<"d", "-", "1">>}, files : {{}}, ops : {<<>>}]

\* ----------------------------------------------------------------- actions
\* Lines 101-124: merge the parameters, validate and lock them.
Configure ==
  /\ pc = "start"
  /\ \E valid \in BOOLEAN :
       /\ params' = MergedParams(FLAGS)
       /\ pc' = IF valid THEN "build" ELSE "raised"
       /\ err' = IF valid THEN err ELSE "OtherError"
  /\ UNCHANGED <<FLAGS, built, log, yielded, ckpt, cycle, num_cycles, fs>>

\* Lines 130-137: the model function, the executor and the input functions
\* are built from the parameters.
Build ==
  /\ pc = "build"
  /\ built' = params
  /\ pc' = "dispatch"
  /\ UNCHANGED <<FLAGS, params, err, log, yielded, ckpt, cycle, num_cycles, fs>>

\* Lines 140-141
TrainSaveConfig ==
  /\ pc = "dispatch"
  /\ FLAGS.mode = "train"
  /\ fs' = save_config(params, params["model_dir"], fs)
  /\ pc' = "train"
  /\ UNCHANGED <<FLAGS, params, built, err, log, yielded, ckpt, cycle, num_cycles>>

\* Mutant: the evaluation after training does not look at the flag.
AfterTrainAlwaysEval(F) == "train_eval"

\* Line 143: what follows executor.train in mode 'train'.
AfterTrain(F) == IF F.eval_after_training THEN "train_eval" ELSE "done"

\* Line 142
Train ==
  /\ pc = "train"
  /\ \E res \in Outcomes :
       /\ log' = Append(log, TrainCall(params["train.total_steps"], res))
       /\ pc' = IF res = "ok" THEN AfterTrain(FLAGS) ELSE "raised"
       /\ err' = IF res = "ok" THEN err ELSE res
  /\ UNCHANGED <<FLAGS, params, built, yielded, ckpt, cycle, num_cycles, fs>>

\* Lines 143-147
TrainEval ==
  /\ pc = "train_eval"
  /\ \E res \in Outcomes :
       /\ log' = Append(log, EvaluateCall(EvalSteps(params),
                                          params["train.total_steps"], res))
       /\ pc' = IF res = "ok" THEN "done" ELSE "raised"
       /\ err' = IF res = "ok" THEN err ELSE res
  /\ UNCHANGED <<FLAGS, params, built, yielded, ckpt, cycle, num_cycles, fs>>

\* Line 149: the eval branch enters the checkpoint loop.
EvalStart ==
  /\ pc = "dispatch"
  /\ FLAGS.mode = "eval"
  /\ pc' = IF params["model_dir"] = None THEN "raised" ELSE "eval_iter"
  /\ err' = IF params["model_dir"] = None THEN "OtherError" ELSE err
  /\ UNCHANGED <<FLAGS, params, built, log, yielded, ckpt, cycle, num_cycles, fs>>

\* Lines 155-159: the iterator yields the path of a new checkpoint.
EvalYield ==
  /\ pc = "eval_iter"
  /\ Len(yielded) < MaxCkpts
  /\ \E k \in 1..MaxStep :
       /\ ckpt' = CkptPath(params["model_dir"], k * StepUnit)
       /\ yielded' = Append(yielded, [path |-> ckpt', step |-> k * StepUnit])
  /\ pc' = "eval_body"
  /\ UNCHANGED <<FLAGS, params, built, err, log, cycle, num_cycles, fs>>

\* Lines 155-159: no new checkpoint within eval_timeout; the iterator asks
\* timeout_fn and stops when it answers True.
EvalTimeout ==
  /\ pc = "eval_iter"
  /\ pc' = IF terminate_eval THEN "done" ELSE "eval_iter"
  /\ UNCHANGED <<FLAGS, params, built, err, log, yielded, ckpt, cycle, num_cycles, fs>>

\* Mutant: NotFoundError is not caught.
AfterEvaluateNoExcept(res, current_step, total_steps) ==
  IF res = "ok" THEN (IF current_step >= total_steps THEN "done" ELSE "eval_iter")
  ELSE "raised"

\* Mutant: every error is caught, not NotFoundError alone.
AfterEvaluateBareExcept(res, current_step, total_steps) ==
  IF res = "ok" THEN (IF current_step >= total_steps THEN "done" ELSE "eval_iter")
  ELSE "eval_iter"

\* Mutant: the final checkpoint is one past total_steps.
AfterEvaluateStrict(res, current_step, total_steps) ==
  IF res = "ok" THEN (IF current_step > total_steps THEN "done" ELSE "eval_iter")
  ELSE IF res = "NotFoundError" THEN "eval_iter"
  ELSE "raised"

\* Lines 170 and 174-180: where the loop goes after executor.evaluate.
AfterEvaluate(res, current_step, total_steps) ==
  IF res = "ok" THEN (IF current_step >= total_steps THEN "done" ELSE "eval_iter")
  ELSE IF res = "NotFoundError" THEN "eval_iter"
  ELSE "raised"

\* Lines 161-180: the loop body.
EvalBody ==
  /\ pc = "eval_body"
  /\ IF IsInt(StepField(ckpt)) THEN
       \E res \in Outcomes :
         LET current_step == current_step_of(ckpt) IN
         /\ log' = Append(log, EvaluateCall(EvalSteps(params), current_step, res))
         /\ pc' = AfterEvaluate(res, current_step, params["train.total_steps"])
         /\ err' = IF pc' = "raised" THEN res ELSE err
     ELSE
       /\ pc' = "raised"
       /\ err' = "OtherError"
       /\ log' = log
  /\ UNCHANGED <<FLAGS, params, built, yielded, ckpt, cycle, num_cycles, fs>>

\* Lines 182-184
TrainAndEvalStart ==
  /\ pc = "dispatch"
  /\ FLAGS.mode = "train_and_eval"
  /\ fs' = save_config(params, params["model_dir"], fs)
  /\ num_cycles' = IntTrueDiv(params["train.total_steps"],
                              params["eval.num_steps_per_eval"])
  /\ cycle' = 0
  /\ pc' = IF num_cycles' > 0 THEN "tae_train" ELSE "done"
  /\ UNCHANGED <<FLAGS, params, built, err, log, yielded, ckpt>>

\* Mutant: the cycle's step is counted from zero.
CycleStepFromZero(c, p) == c * p["eval.num_steps_per_eval"]

\* Line 187
CycleStep(c, p) == (c + 1) * p["eval.num_steps_per_eval"]

\* Lines 185-188
TrainAndEvalTrain ==
  /\ pc = "tae_train"
  /\ \E res \in Outcomes :
       /\ log' = Append(log, TrainCall(CycleStep(cycle, params), res))
       /\ pc' = IF res = "ok" THEN "tae_eval" ELSE "raised"
       /\ err' = IF res = "ok" THEN err ELSE res
  /\ UNCHANGED <<FLAGS, params, built, yielded, ckpt, cycle, num_cycles, fs>>

\* Lines 189-192, and the loop's step to the next cycle.
TrainAndEvalEvaluate ==
  /\ pc = "tae_eval"
  /\ \E res \in Outcomes :
       /\ log' = Append(log, EvaluateCall(EvalSteps(params),
                                          CycleStep(cycle, params), res))
       /\ pc' = IF res # "ok" THEN "raised"
                ELSE IF cycle + 1 < num_cycles THEN "tae_train" ELSE "done"
       /\ cycle' = IF res = "ok" /\ cycle + 1 < num_cycles THEN cycle + 1 ELSE cycle
       /\ err' = IF res = "ok" THEN err ELSE res
  /\ UNCHANGED <<FLAGS, params, built, yielded, ckpt, num_cycles, fs>>

\* Lines 193-194
ModeNotFound ==
  /\ pc = "dispatch"
  /\ FLAGS.mode \notin {"train", "eval", "train_and_eval"}
  /\ pc' = "done"
  /\ UNCHANGED <<FLAGS, params, built, err, log, yielded, ckpt, cycle, num_cycles, fs>>

Next ==
  \/ Configure
  \/ Build
  \/ TrainSaveConfig
  \/ Train
  \/ TrainEval
  \/ EvalStart
  \/ EvalYield
  \/ EvalTimeout
  \/ EvalBody
  \/ TrainAndEvalStart
  \/ TrainAndEvalTrain
  \/ TrainAndEvalEvaluate
  \/ ModeNotFound

Spec == Init /\ [][Next]_vars

\* main() is one sequential program: whenever it can take a step it does.
FairSpec == Spec /\ WF_vars(Next)

\* ------------------------------------------------------------------ claims
total_steps == params["train.total_steps"]
\* main() has built the executor and entered the branch of its mode.
Dispatched == DOMAIN built = ParamKeys /\ pc # "dispatch"
\* A call of the log without its outcome.
Call(e) == [op |-> e.op, eval_steps |-> e.eval_steps, step |-> e.step]

\* C1: in mode 'eval' a NotFoundError raised by executor.evaluate never leaves
\* main: it is not the error the run ends with, and right after it the loop is
\* back at the checkpoint iterator, whatever the step of the checkpoint; a
\* checkpoint yielded after it is evaluated in its turn.
C1_NotFoundSkipped ==
  FLAGS.mode = "eval" =>
    /\ err # "NotFoundError"
    /\ \A i \in 1..Len(log) :
         log[i].raised = "NotFoundError" =>
           /\ (i = Len(log) /\ Len(yielded) = i) => pc \in {"eval_iter", "done"}
           /\ (i = Len(log) /\ Len(yielded) > i) => pc = "eval_body"
           /\ pc = "raised" => i < Len(log)

\* C1 witness: the evaluation of a final checkpoint raised NotFoundError and
\* the next checkpoint was evaluated after it.
C1_Witness ==
  /\ FLAGS.mode = "eval"
  /\ Len(log) = 2
  /\ log[1].raised = "NotFoundError"
  /\ log[1].step >= total_steps
  /\ log[2].raised = "OtherError"

\* C2: an executor call that raises anything but a NotFoundError caught in
\* mode 'eval' is the last call of the run: main ends with that error, and no
\* checkpoint is taken from the iterator after it.
C2_ErrorsPropagate ==
  \A i \in 1..Len(log) :
    (/\ log[i].raised # "ok"
     /\ ~(FLAGS.mode = "eval" /\ log[i].raised = "NotFoundError")) =>
      /\ i = Len(log)
      /\ pc = "raised"
      /\ err = log[i].raised
      /\ FLAGS.mode = "eval" => Len(yielded) = i

\* C2 witness: a NotFoundError raised by executor.evaluate in mode
\* 'train_and_eval', in the second cycle, ended the run.
C2_Witness ==
  /\ FLAGS.mode = "train_and_eval"
  /\ Len(log) = 4
  /\ log[4].op = "evaluate"
  /\ log[4].raised = "NotFoundError"
  /\ pc = "raised"

GivenBy(name, k) == Truthy(name) /\ k \in DOMAIN Yaml(name)
ByOrder(k) ==
  IF GivenBy(FLAGS.params_override, k) THEN Yaml(FLAGS.params_override)[k]
  ELSE IF GivenBy(FLAGS.config_file, k) THEN Yaml(FLAGS.config_file)[k]
  ELSE RETINANET_CFG[k]

\* C4 as stated: every parameter the model and executor are built with has
\* the value of --params_override, else of --config_file, else the default.
C4_Original ==
  DOMAIN built = ParamKeys => \A k \in ParamKeys : built[k] = ByOrder(k)

\* C4 amended: that order holds for every parameter but the seven main() sets
\* from the command-line flags after both overrides (platform.eval_master,
\* platform.tpu, platform.tpu_zone, platform.gcp_project, use_tpu, model_dir,
\* train.num_shards); those have the values of their flags.
C4_OverrideOrder ==
  DOMAIN built = ParamKeys =>
    /\ \A k \in ParamKeys \ FlagKeys : built[k] = ByOrder(k)
    /\ \A k \in FlagKeys : built[k] = FlagDict(FLAGS)[k]

\* C4 witness: train.total_steps is given by both documents, and the model is
\* built with the value of --params_override.
C4_Witness ==
  /\ DOMAIN built = ParamKeys
  /\ GivenBy(FLAGS.config_file, "train.total_steps")
  /\ GivenBy(FLAGS.params_override, "train.total_steps")
  /\ Yaml(FLAGS.config_file)["train.total_steps"]
       # Yaml(FLAGS.params_override)["train.total_steps"]
  /\ built["train.total_steps"] = Yaml(FLAGS.params_override)["train.total_steps"]

\* C5: in modes 'train' and 'train_and_eval' no executor call precedes
\* save_config; with a non-empty model_dir, model_dir exists afterwards (it is
\* created first when it did not) and <model_dir>/param.yaml holds the
\* validated parameters; with model_dir empty or None nothing is written or
\* created, and a 'train' run that returns has trained.
C5_ParamSnapshot ==
  FLAGS.mode \in {"train", "train_and_eval"} =>
    /\ ~Dispatched => (log = <<>> /\ fs.ops = <<>>)
    /\ Dispatched =>
         LET md == FLAGS.model_dir
             path == md \o ParamYaml
         IN IF Truthy(md)
            THEN /\ md \in fs.dirs
                 /\ fs.files = {<<path, params>>}
                 /\ \/ fs.ops = <<<<"write", path>>>>
                    \/ fs.ops = <<<<"MakeDirs", md>>, <<"write", path>>>>
            ELSE /\ fs.ops = <<>>
                 /\ fs.files = {}
                 /\ (FLAGS.mode = "train" /\ pc = "done") => Len(log) >= 1

\* C5 witness: model_dir did not exist, was created, the snapshot was written
\* and training was called.
C5_Witness ==
  /\ FLAGS.mode = "train_and_eval"
  /\ Len(fs.ops) = 2
  /\ fs.ops[1][1] = "MakeDirs"
  /\ Len(log) >= 1

TrainCalls ==
  <<[op |-> "train", eval_steps |-> 0, step |-> total_steps]>> \o
  (IF FLAGS.eval_after_training
   THEN <<[op |-> "evaluate",
           eval_steps |-> params["eval.eval_samples"]
                            \div params["predict.predict_batch_size"],
           step |-> total_steps]>>
   ELSE <<>>)

\* C7: in mode 'train' the calls are train(total_steps) and then, with
\* --eval_after_training only, one evaluate of eval_samples //
\* predict_batch_size steps at total_steps; a call is made only after the
\* calls before it returned, and a run that returns made them all.
C7_TrainMode ==
  FLAGS.mode = "train" =>
    /\ Len(log) <= Len(TrainCalls)
    /\ \A i \in 1..Len(log) :
         /\ Call(log[i]) = TrainCalls[i]
         /\ i < Len(log) => log[i].raised = "ok"
    /\ Dispatched /\ pc \in {"train_eval", "done"} => log[1].raised = "ok"
    /\ pc = "done" => (Len(log) = Len(TrainCalls) /\ log[Len(log)].raised = "ok")

\* C7 witness: a 'train' run with --eval_after_training returned after both
\* calls.
C7_Witness ==
  /\ FLAGS.mode = "train"
  /\ FLAGS.eval_after_training
  /\ pc = "done"
  /\ Len(log) = 2

\* C8: in mode 'train_and_eval', with n = num_steps_per_eval, the i-th call is
\* train for odd i and evaluate for even i, at step ceil(i/2) * n, every
\* evaluate has eval_samples // predict_batch_size steps, and a run that
\* returns made exactly 2 * (total_steps div n) calls.
C8_TrainAndEval ==
  FLAGS.mode = "train_and_eval" =>
    LET n == params["eval.num_steps_per_eval"]
        cycles == total_steps \div n
    IN /\ Len(log) <= 2 * cycles
       /\ \A i \in 1..Len(log) :
            /\ log[i].op = IF i % 2 = 1 THEN "train" ELSE "evaluate"
            /\ log[i].step = ((i + 1) \div 2) * n
            /\ log[i].op = "evaluate" =>
                 log[i].eval_steps = params["eval.eval_samples"]
                                       \div params["predict.predict_batch_size"]
            /\ i < Len(log) => log[i].raised = "ok"
       /\ pc = "done" => Len(log) = 2 * cycles

\* C8 witness: a run of three cycles returned.
C8_Witness ==
  /\ FLAGS.mode = "train_and_eval"
  /\ pc = "done"
  /\ Len(log) = 6
  /\ log[6].step = total_steps

\* C9: in mode 'eval' no call is a train, nothing is written, and the i-th
\* call evaluates the i-th checkpoint yielded at the step it was written at;
\* a mode that is none of the three makes no call, writes nothing and, once
\* the parameters are valid, returns without error.
C9_EvalFrame ==
  /\ FLAGS.mode = "eval" =>
       /\ fs.ops = <<>> /\ fs.files = {}
       /\ Len(log) <= Len(yielded) /\ Len(yielded) <= Len(log) + 1
       /\ pc \in {"raised", "done", "eval_iter"} => Len(log) = Len(yielded)
       /\ \A i \in 1..Len(log) :
            /\ log[i].op = "evaluate"
            /\ log[i].step = yielded[i].step
  /\ FLAGS.mode \notin {"train", "eval", "train_and_eval"} =>
       /\ log = <<>> /\ fs.ops = <<>> /\ fs.files = {}
       /\ Dispatched => (pc = "done" /\ err = "none")

\* C9 witness: two checkpoints under a model_dir whose name holds a '-' were
\* evaluated, the later one of a smaller step.
C9_Witness ==
  /\ FLAGS.mode = "eval"
  /\ Truthy(FLAGS.model_dir)
  /\ Len(log) = 2
  /\ log[2].step < log[1].step

====
